---- MODULE Spec2Model ----
(***************************************************************************)
(* View-state synchronisation and search triggering of App (src/App.tsx): *)
(* the selected category, the current map bounds, the bounds of the last  *)
(* completed search, the result set, the "search this area" button and    *)
(* the category searches in flight.                                       *)
(*                                                                         *)
(* One action is one browser event run to completion: the handler, the    *)
(* re-render it causes and the effects of that render.                    *)
(***************************************************************************)
EXTENDS Integers, Sequences, FiniteSets, TLC

VARIABLES
    mounted,               \* mapRef.current / searchRef.current are set (mount effect ran)
    loaded,                \* the map's one-time "load" event has fired
    showSearchAreaButton,  \* useState(false)
    searchCategory,        \* useState<string | undefined>()
    searchResults,         \* useState<SearchFeature[]>([])
    mapBounds,             \* useState<number[][] | undefined>()
    searchBounds,          \* useState<number[][] | undefined>()
    inflight,              \* pending searchRef.current.category(...) promises, in issue order
    lastEvent,             \* history: the kind of the event handled last
    lastCompleted,         \* history: the request whose response produced searchResults
    boundsA,               \* comparator specification: first argument
    boundsB,               \* comparator specification: second argument
    changed                \* comparator specification: result, "pending" before the call

vars == <<mounted, loaded, showSearchAreaButton, searchCategory, searchResults,
          mapBounds, searchBounds, inflight, lastEvent, lastCompleted,
          boundsA, boundsB, changed>>

appVars == <<mounted, loaded, showSearchAreaButton, searchCategory, searchResults,
             mapBounds, searchBounds, inflight, lastEvent, lastCompleted>>

cmpVars == <<boundsA, boundsB, changed>>

----------------------------------------------------------------------------
(* Bounds of the model *)

MaxLng == 2        \* east edges 1..MaxLng: the viewports the map can report
MaxCategory == 2   \* the first MaxCategory category buttons are the ones clicked
MaxInFlight == 2   \* searches pending at the same time
MaxCoord == 1      \* comparator specification: each coordinate in 0..MaxCoord

----------------------------------------------------------------------------
(* Values *)

\* undefined of a `number[][] | undefined` state
Undefined == <<>>

\* undefined of the `string | undefined` category state
Unset == "undefined"

\* categoryButtons, in the order of the configuration array
categoryButtons == <<"coffee", "restaurant", "bar", "hotel", "museum">>

\* the values a category click can select
Categories == { categoryButtons[i] : i \in 1..Len(categoryButtons) }

\* the category buttons the model clicks
Clicked == { categoryButtons[i] : i \in 1..MaxCategory }

\* a response carries no feature or one
FeatureCounts == 0..1

\* limit of every category search
Limit == 25

\* getBounds().toArray(): [[west, south], [east, north]]
BoundsSet == { <<<<0, 0>>, <<e, 1>>>> : e \in 1..MaxLng }

\* the inputs of the comparator specification
CmpBounds ==
    { <<<<w, s>>, <<e, n>>>> : w \in 0..MaxCoord, s \in 0..MaxCoord,
                               e \in 0..MaxCoord, n \in 0..MaxCoord }

\* the placeholder of lastCompleted before any search has completed
NoRequest == [category |-> Unset, bbox |-> Undefined, limit |-> 0, overtaken |-> FALSE]

----------------------------------------------------------------------------
(* Pure functions *)

\* JSON.stringify of one number[] as a token sequence
StringifyPair(p) == <<"[", ToString(p[1]), ",", ToString(p[2]), "]">>

\* JSON.stringify(bounds); JSON.stringify(undefined) yields no string at all
Stringify(b) ==
    IF b = Undefined THEN <<>>
    ELSE <<"[">> \o StringifyPair(b[1]) \o <<",">> \o StringifyPair(b[2]) \o <<"]">>

\* mutant: the comparator without its early return on undefined
boundsChangedNoGuard(a, b) == Stringify(a) # Stringify(b)

\* mutant: the comparator looks at the south-west corner only
boundsChangedSouthWest(a, b) ==
    IF a = Undefined \/ b = Undefined THEN FALSE
    ELSE StringifyPair(a[1]) # StringifyPair(b[1])

\* mutant: the early return tests the first argument only
boundsChangedLeftGuard(a, b) ==
    IF a = Undefined THEN FALSE
    ELSE Stringify(a) # Stringify(b)

\* boundsChanged(boundsA, boundsB)
boundsChanged(a, b) ==
    IF a = Undefined \/ b = Undefined THEN FALSE
    ELSE Stringify(a) # Stringify(b)

\* mutant: the effect compares the two bounds itself and forgets the category
StaleEffectBoundsOnly(category, mb, sb) == Stringify(mb) # Stringify(sb)

\* the value the staleness effect gives to showSearchAreaButton
StaleEffect(category, mb, sb) == category # Unset /\ boundsChanged(mb, sb)

\* the features of a response with n features to the request req
Features(req, n) ==
    [i \in 1..n |-> [mapbox_id |-> i, category |-> req.category, bbox |-> req.bbox]]

\* the guard of performCategorySearch
CanSearch(category, mb, ref) == category # Unset /\ mb # Undefined /\ ref

\* the call performCategorySearch makes from a render with this category and bounds
Request(category, mb) ==
    [category |-> category, bbox |-> mb, limit |-> Limit, overtaken |-> FALSE]

\* mutant: the guard does not test mapBounds
performCategorySearchNoBoundsGuard(category, mb, ref, pending) ==
    IF category # Unset /\ ref THEN Append(pending, Request(category, mb))
    ELSE pending

\* performCategorySearch up to its await: the pending calls after it
performCategorySearch(category, mb, ref, pending) ==
    IF CanSearch(category, mb, ref) THEN Append(pending, Request(category, mb))
    ELSE pending

\* the sequence s without its i-th element
RemoveAt(s, i) == [j \in 1..(Len(s) - 1) |-> IF j < i THEN s[j] ELSE s[j + 1]]

\* the pending calls once the i-th has resolved: the older ones have been overtaken
AfterResolve(s, i) ==
    RemoveAt([j \in 1..Len(s) |-> IF j < i THEN [s[j] EXCEPT !.overtaken = TRUE] ELSE s[j]], i)

----------------------------------------------------------------------------
(* The application *)

Init ==
    /\ mounted = FALSE
    /\ loaded = FALSE
    /\ showSearchAreaButton = FALSE
    /\ searchCategory = Unset
    /\ searchResults = <<>>
    /\ mapBounds = Undefined
    /\ searchBounds = Undefined
    /\ inflight = <<>>
    /\ lastEvent = "render"
    /\ lastCompleted = NoRequest
    /\ boundsA = Undefined
    /\ boundsB = Undefined
    /\ changed = "pending"

\* the effects of the first render: staleness, map and search box creation,
\* and the category effect's first run
Mount ==
    /\ ~mounted
    /\ mounted' = TRUE
    /\ showSearchAreaButton' = StaleEffect(searchCategory, mapBounds, searchBounds)
    /\ inflight' = performCategorySearch(searchCategory, mapBounds, TRUE, inflight)
    /\ lastEvent' = "mount"
    /\ UNCHANGED <<loaded, searchCategory, searchResults, mapBounds, searchBounds,
                   lastCompleted, cmpVars>>

\* mutant: the category effect depends on mapBounds too, so load searches
LoadSearches(b) ==
    /\ mounted /\ ~loaded
    /\ CanSearch(searchCategory, b, mounted) => Len(inflight) < MaxInFlight
    /\ loaded' = TRUE
    /\ mapBounds' = b
    /\ showSearchAreaButton' = StaleEffect(searchCategory, b, searchBounds)
    /\ inflight' = performCategorySearch(searchCategory, b, mounted, inflight)
    /\ lastEvent' = "load"
    /\ UNCHANGED <<mounted, searchCategory, searchResults, searchBounds,
                   lastCompleted, cmpVars>>

\* map "load": setMapBounds(getBounds().toArray()), then the staleness effect
Load(b) ==
    /\ mounted /\ ~loaded
    /\ loaded' = TRUE
    /\ mapBounds' = b
    /\ showSearchAreaButton' = StaleEffect(searchCategory, b, searchBounds)
    /\ lastEvent' = "load"
    /\ UNCHANGED <<mounted, searchCategory, searchResults, searchBounds, inflight,
                   lastCompleted, cmpVars>>

\* mutant: the staleness effect does not depend on mapBounds
MoveEndNoEffect(b) ==
    /\ mounted
    /\ mapBounds' = b
    /\ lastEvent' = "moveend"
    /\ UNCHANGED <<mounted, loaded, showSearchAreaButton, searchCategory, searchResults,
                   searchBounds, inflight, lastCompleted, cmpVars>>

\* map "moveend": setMapBounds(getBounds().toArray()), then the staleness effect
MoveEnd(b) ==
    /\ mounted
    /\ mapBounds' = b
    /\ showSearchAreaButton' = StaleEffect(searchCategory, b, searchBounds)
    /\ lastEvent' = "moveend"
    /\ UNCHANGED <<mounted, loaded, searchCategory, searchResults, searchBounds, inflight,
                   lastCompleted, cmpVars>>

\* mutant: the click handler calls performCategorySearch itself, from the render
\* that still holds the category selected before
SelectCategoryStale(c) ==
    /\ mounted
    /\ lastEvent' = "click"
    /\ IF c = searchCategory
       THEN UNCHANGED <<searchCategory, showSearchAreaButton, inflight>>
       ELSE /\ CanSearch(searchCategory, mapBounds, mounted) => Len(inflight) < MaxInFlight
            /\ searchCategory' = c
            /\ showSearchAreaButton' = StaleEffect(c, mapBounds, searchBounds)
            /\ inflight' = performCategorySearch(searchCategory, mapBounds, mounted, inflight)
    /\ UNCHANGED <<mounted, loaded, searchResults, mapBounds, searchBounds,
                   lastCompleted, cmpVars>>

\* mutant: the category effect runs on the first render only
SelectCategoryNoSearch(c) ==
    /\ mounted
    /\ lastEvent' = "click"
    /\ IF c = searchCategory
       THEN UNCHANGED <<searchCategory, showSearchAreaButton>>
       ELSE /\ searchCategory' = c
            /\ showSearchAreaButton' = StaleEffect(c, mapBounds, searchBounds)
    /\ UNCHANGED <<mounted, loaded, searchResults, mapBounds, searchBounds, inflight,
                   lastCompleted, cmpVars>>

\* mutant: every click searches, the click on the active category too
SelectCategoryAlways(c) ==
    /\ mounted
    /\ lastEvent' = "click"
    /\ CanSearch(c, mapBounds, mounted) => Len(inflight) < MaxInFlight
    /\ searchCategory' = c
    /\ showSearchAreaButton' = StaleEffect(c, mapBounds, searchBounds)
    /\ inflight' = performCategorySearch(c, mapBounds, mounted, inflight)
    /\ UNCHANGED <<mounted, loaded, searchResults, mapBounds, searchBounds,
                   lastCompleted, cmpVars>>

\* mutant: toggle semantics, a click on the active category clears it
SelectCategoryToggle(c) ==
    /\ mounted
    /\ lastEvent' = "click"
    /\ IF c = searchCategory
       THEN /\ searchCategory' = Unset
            /\ showSearchAreaButton' = StaleEffect(Unset, mapBounds, searchBounds)
            /\ inflight' = performCategorySearch(Unset, mapBounds, mounted, inflight)
       ELSE /\ CanSearch(c, mapBounds, mounted) => Len(inflight) < MaxInFlight
            /\ searchCategory' = c
            /\ showSearchAreaButton' = StaleEffect(c, mapBounds, searchBounds)
            /\ inflight' = performCategorySearch(c, mapBounds, mounted, inflight)
    /\ UNCHANGED <<mounted, loaded, searchResults, mapBounds, searchBounds,
                   lastCompleted, cmpVars>>

\* click on a category button: setSearchCategory(value); when the value is new
\* the render's staleness effect and category effect run
SelectCategory(c) ==
    /\ mounted
    /\ lastEvent' = "click"
    /\ IF c = searchCategory
       THEN UNCHANGED <<searchCategory, showSearchAreaButton, inflight>>
       ELSE /\ CanSearch(c, mapBounds, mounted) => Len(inflight) < MaxInFlight
            /\ searchCategory' = c
            /\ showSearchAreaButton' = StaleEffect(c, mapBounds, searchBounds)
            /\ inflight' = performCategorySearch(c, mapBounds, mounted, inflight)
    /\ UNCHANGED <<mounted, loaded, searchResults, mapBounds, searchBounds,
                   lastCompleted, cmpVars>>

\* click on "search this area": performCategorySearch of the current render
SearchThisArea ==
    /\ mounted
    /\ showSearchAreaButton
    /\ CanSearch(searchCategory, mapBounds, mounted) => Len(inflight) < MaxInFlight
    /\ inflight' = performCategorySearch(searchCategory, mapBounds, mounted, inflight)
    /\ lastEvent' = "searchArea"
    /\ UNCHANGED <<mounted, loaded, showSearchAreaButton, searchCategory, searchResults,
                   mapBounds, searchBounds, lastCompleted, cmpVars>>

\* mutant: a response that a newer response has overtaken is dropped
ResolveLatestOnly(i, n) ==
    /\ i \in 1..Len(inflight)
    /\ IF inflight[i].overtaken
       THEN UNCHANGED <<searchResults, searchBounds, showSearchAreaButton, lastCompleted>>
       ELSE /\ searchResults' = Features(inflight[i], n)
            /\ searchBounds' = inflight[i].bbox
            /\ showSearchAreaButton' = StaleEffect(searchCategory, mapBounds, inflight[i].bbox)
            /\ lastCompleted' = inflight[i]
    /\ inflight' = AfterResolve(inflight, i)
    /\ lastEvent' = "resolved"
    /\ UNCHANGED <<mounted, loaded, searchCategory, mapBounds, cmpVars>>

\* mutant: the bounds recorded are the ones current when the response arrives
ResolveCurrentBounds(i, n) ==
    /\ i \in 1..Len(inflight)
    /\ searchResults' = Features(inflight[i], n)
    /\ searchBounds' = mapBounds
    /\ showSearchAreaButton' = StaleEffect(searchCategory, mapBounds, mapBounds)
    /\ inflight' = AfterResolve(inflight, i)
    /\ lastCompleted' = inflight[i]
    /\ lastEvent' = "resolved"
    /\ UNCHANGED <<mounted, loaded, searchCategory, mapBounds, cmpVars>>

\* the i-th pending call resolves with n features: setSearchResults(features),
\* setSearchBounds(mapBounds of the issuing render), then the staleness effect
Resolve(i, n) ==
    /\ i \in 1..Len(inflight)
    /\ searchResults' = Features(inflight[i], n)
    /\ searchBounds' = inflight[i].bbox
    /\ showSearchAreaButton' = StaleEffect(searchCategory, mapBounds, inflight[i].bbox)
    /\ inflight' = AfterResolve(inflight, i)
    /\ lastCompleted' = inflight[i]
    /\ lastEvent' = "resolved"
    /\ UNCHANGED <<mounted, loaded, searchCategory, mapBounds, cmpVars>>

\* mutant: a catch block that clears the snapshot
RejectClears(i) ==
    /\ i \in 1..Len(inflight)
    /\ inflight' = RemoveAt(inflight, i)
    /\ searchResults' = <<>>
    /\ searchBounds' = Undefined
    /\ showSearchAreaButton' = StaleEffect(searchCategory, mapBounds, Undefined)
    /\ lastEvent' = "rejected"
    /\ UNCHANGED <<mounted, loaded, searchCategory, mapBounds, lastCompleted, cmpVars>>

\* the i-th pending call rejects: the await throws, nothing after it runs
Reject(i) ==
    /\ i \in 1..Len(inflight)
    /\ inflight' = RemoveAt(inflight, i)
    /\ lastEvent' = "rejected"
    /\ UNCHANGED <<mounted, loaded, showSearchAreaButton, searchCategory, searchResults,
                   mapBounds, searchBounds, lastCompleted, cmpVars>>

Next ==
    \/ Mount
    \/ \E b \in BoundsSet : Load(b)
    \/ \E b \in BoundsSet : MoveEnd(b)
    \/ \E c \in Clicked : SelectCategory(c)
    \/ SearchThisArea
    \/ \E i \in 1..MaxInFlight, n \in FeatureCounts : Resolve(i, n)
    \/ \E i \in 1..MaxInFlight : Reject(i)

Spec == Init /\ [][Next]_vars

----------------------------------------------------------------------------
(* The comparator on its own: every pair of arguments, then the call *)

InitCmp ==
    /\ mounted = FALSE
    /\ loaded = FALSE
    /\ showSearchAreaButton = FALSE
    /\ searchCategory = Unset
    /\ searchResults = <<>>
    /\ mapBounds = Undefined
    /\ searchBounds = Undefined
    /\ inflight = <<>>
    /\ lastEvent = "render"
    /\ lastCompleted = NoRequest
    /\ boundsA \in CmpBounds \cup {Undefined}
    /\ boundsB \in CmpBounds \cup {Undefined}
    /\ changed = "pending"

CallBoundsChanged ==
    /\ changed = "pending"
    /\ changed' = IF boundsChanged(boundsA, boundsB) THEN "true" ELSE "false"
    /\ UNCHANGED <<boundsA, boundsB, appVars>>

NextCmp == CallBoundsChanged

SpecCmp == InitCmp /\ [][NextCmp]_vars

----------------------------------------------------------------------------
(* Steps, as the properties below name them *)

\* a step that made a call to the search collaborator
Issues == Len(inflight') > Len(inflight)

\* the call a step made
Issued == inflight'[Len(inflight')]

\* a click that selected a category other than the active one
NewCategory == searchCategory' # searchCategory

\* a step in which a pending call resolved; lastCompleted' is that call
Resolves == lastEvent' = "resolved" /\ Len(inflight') < Len(inflight)

\* a step in which a pending call rejected
Rejects == lastEvent' = "rejected" /\ Len(inflight') < Len(inflight)

\* the two bounds are both captured and are not the same four numbers
Drifted(mb, sb) == mb # Undefined /\ sb # Undefined /\ mb # sb

----------------------------------------------------------------------------
(* C1: in every state, the "search this area" button is shown if and only  *)
(* if a category is selected and the current bounds differ structurally    *)
(* from the bounds of the last completed search, the states with no        *)
(* completed search (last-search bounds undefined) included.               *)
C1_Original ==
    mounted => (showSearchAreaButton <=>
                   (searchCategory # Unset /\ mapBounds # searchBounds))

(* C1, amended: the button is shown if and only if a category is selected, *)
(* both bounds are defined and they differ structurally; while no search   *)
(* has completed the button is hidden.                                     *)
C1_Stale ==
    showSearchAreaButton <=> (searchCategory # Unset /\ Drifted(mapBounds, searchBounds))

C1_Witness ==
    /\ showSearchAreaButton
    /\ lastEvent = "moveend"
    /\ searchCategory # Unset
    /\ Drifted(mapBounds, searchBounds)

(* C2: every call to the search collaborator, automatic or manual, carries *)
(* the category selected at the moment of triggering, the map bounds       *)
(* current at that moment and limit 25; none carries an unset category or  *)
(* undefined bounds.                                                       *)
C2_CallArguments ==
    [][Issues =>
          /\ Len(inflight') = Len(inflight) + 1
          /\ mapBounds' = mapBounds
          /\ Issued.category = searchCategory'
          /\ Issued.category \in Categories
          /\ Issued.bbox = mapBounds
          /\ Issued.bbox \in BoundsSet
          /\ Issued.limit = 25]_vars

C2_Witness ==
    /\ lastEvent = "click"
    /\ Len(inflight) = 2
    /\ inflight[1].category # searchCategory
    /\ inflight[2].category = searchCategory
    /\ inflight[1].bbox # mapBounds
    /\ inflight[2].bbox = mapBounds

(* C3: when the category changes to a new value while bounds are captured, *)
(* exactly one search is issued at once with that category and the current *)
(* bounds, stale or not; and when a search resolves whose bounds are still *)
(* the current ones, the button is hidden.                                 *)
C3_AutomaticSearch ==
    [][/\ (NewCategory /\ mapBounds # Undefined) =>
              /\ inflight' = Append(inflight, Request(searchCategory', mapBounds))
              /\ mapBounds' = mapBounds
       /\ (Resolves /\ lastCompleted'.bbox = mapBounds) =>
              /\ searchBounds' = mapBounds'
              /\ ~showSearchAreaButton']_vars

C3_Witness ==
    /\ lastEvent = "resolved"
    /\ inflight = <<>>
    /\ lastCompleted.category = searchCategory
    /\ lastCompleted.bbox = mapBounds
    /\ searchBounds = mapBounds
    /\ ~showSearchAreaButton

(* C4: a click on the category that is already active (bounds captured)    *)
(* does not clear it and issues the automatic search again.                *)
C4_Original ==
    [][(lastEvent' = "click" /\ ~NewCategory /\ mapBounds # Undefined) =>
          /\ searchCategory' # Unset
          /\ inflight' = Append(inflight, Request(searchCategory, mapBounds))]_vars

(* C4, amended: a click on the category that is already active does not    *)
(* clear it and issues no search; it changes nothing of the view state.    *)
C4_Reselect ==
    [][(lastEvent' = "click" /\ ~NewCategory) =>
          /\ searchCategory' # Unset
          /\ UNCHANGED <<inflight, showSearchAreaButton, searchResults,
                         mapBounds, searchBounds>>]_vars

C4_Witness ==
    /\ lastEvent = "click"
    /\ searchCategory # Unset
    /\ mapBounds # Undefined
    /\ inflight = <<>>

(* C5: a trigger (the category effect or the button) that fires while no   *)
(* category is selected or no bounds are captured issues no call and       *)
(* leaves the results, the last-search bounds, the current bounds and the  *)
(* button unchanged.                                                       *)
C5_NoOpGuard ==
    [][((lastEvent' \in {"mount", "searchArea"} \/ NewCategory)
          /\ (searchCategory' = Unset \/ mapBounds = Undefined)) =>
              UNCHANGED <<inflight, searchResults, searchBounds, mapBounds,
                          showSearchAreaButton>>]_vars

C5_Witness ==
    /\ lastEvent = "click"
    /\ ~loaded
    /\ searchCategory # Unset
    /\ mapBounds = Undefined
    /\ inflight = <<>>

(* C6: a trigger while a search is pending issues a further call and       *)
(* cancels none; a call that resolves after a call issued later has        *)
(* resolved overwrites the results and the last-search bounds with its own.*)
C6_LastCompletedWins ==
    [][/\ ((lastEvent' = "searchArea" \/ (NewCategory /\ mapBounds # Undefined))
            /\ Len(inflight) > 0) =>
              /\ Len(inflight') = Len(inflight) + 1
              /\ SubSeq(inflight', 1, Len(inflight)) = inflight
       /\ \A i \in 1..Len(inflight) :
              (Resolves /\ inflight[i].overtaken /\ inflight' = RemoveAt(inflight, i)) =>
                  /\ searchBounds' = inflight[i].bbox
                  /\ \E n \in FeatureCounts : searchResults' = Features(inflight[i], n)]_vars

C6_Witness ==
    /\ lastEvent = "resolved"
    /\ lastCompleted.overtaken
    /\ lastCompleted.category # searchCategory
    /\ searchBounds = lastCompleted.bbox
    /\ Len(searchResults) = 1
    /\ searchResults[1].category = lastCompleted.category

(* C7: after a completed search with a category active, a moveend with     *)
(* bounds other than the last-search bounds shows the button; the button   *)
(* issues a search with the current bounds; when a search with the bounds  *)
(* still current resolves, the button is hidden again.                     *)
C7_SearchThisArea ==
    [][/\ (lastEvent' = "moveend" /\ searchCategory # Unset /\ searchBounds # Undefined
            /\ mapBounds' # searchBounds) => showSearchAreaButton'
       /\ (lastEvent' = "searchArea" /\ Issues) =>
              /\ showSearchAreaButton
              /\ inflight' = Append(inflight, Request(searchCategory, mapBounds))
       /\ (Resolves /\ showSearchAreaButton /\ lastCompleted'.bbox = mapBounds) =>
              ~showSearchAreaButton']_vars

C7_Witness ==
    /\ lastEvent = "searchArea"
    /\ showSearchAreaButton
    /\ searchBounds # Undefined
    /\ inflight = <<Request(searchCategory, mapBounds)>>
    /\ mapBounds # searchBounds

(* C8: in every state with no category selected the button is hidden,      *)
(* whatever load and moveend events have set the bounds to.                *)
C8_HiddenWithoutCategory ==
    searchCategory = Unset => ~showSearchAreaButton

C8_Witness ==
    /\ searchCategory = Unset
    /\ lastEvent = "moveend"
    /\ loaded
    /\ mapBounds # Undefined
    /\ ~showSearchAreaButton

(* C9: when a call to the search collaborator rejects, the results, the    *)
(* last-search bounds and the button are what they were before.            *)
C9_RejectKeepsSnapshot ==
    [][Rejects => UNCHANGED <<searchResults, searchBounds, showSearchAreaButton>>]_vars

C9_Witness ==
    /\ lastEvent = "rejected"
    /\ searchBounds # Undefined
    /\ Len(searchResults) = 1
    /\ showSearchAreaButton
    /\ lastCompleted.category # searchCategory

(* C10: changed(undefined, undefined) = false, and changed(undefined, B) = *)
(* changed(B, undefined) = true for every defined bounds B.                *)
C10_Original ==
    changed # "pending" =>
        /\ (boundsA = Undefined /\ boundsB = Undefined) => changed = "false"
        /\ ((boundsA = Undefined) # (boundsB = Undefined)) => changed = "true"

(* C10, amended: changed(undefined, undefined) = false, and                *)
(* changed(undefined, B) = changed(B, undefined) = false for every defined *)
(* bounds B.                                                               *)
C10_UndefinedNeverChanged ==
    (changed # "pending" /\ (boundsA = Undefined \/ boundsB = Undefined)) =>
        changed = "false"

C10_Witness ==
    /\ changed = "false"
    /\ (boundsA = Undefined) # (boundsB = Undefined)

----------------------------------------------------------------------------
(* Further names for the properties below *)

\* the calls s without their history flag
Calls(s) == [j \in 1..Len(s) |-> [category |-> s[j].category, bbox |-> s[j].bbox]]

\* the i-th pending call is the one that left inflight in this step
Left(i) == Calls(inflight') = Calls(RemoveAt(inflight, i))

\* the four numbers of a and b are the same in the same order
SameNumbers(a, b) == \A i \in 1..2 : \A j \in 1..2 : a[i][j] = b[i][j]

\* the result of the comparator as the comparator specification records it
AsResult(v) == IF v THEN "true" ELSE "false"

(* C11: for all bounds A and B, defined or not, changed(A, B) =            *)
(* changed(B, A) and changed(A, A) = false; for defined A and B, changed   *)
(* is true exactly when the four numbers are not identical in the same     *)
(* order.                                                                  *)
C11_SymmetricExact ==
    changed # "pending" =>
        /\ changed = AsResult(boundsChanged(boundsB, boundsA))
        /\ boundsA = boundsB => changed = "false"
        /\ (boundsA # Undefined /\ boundsB # Undefined) =>
               (changed = "true" <=> ~SameNumbers(boundsA, boundsB))

C11_Witness ==
    /\ changed = "true"
    /\ boundsA # Undefined
    /\ boundsB # Undefined
    /\ boundsA[1] # boundsA[2]
    /\ boundsA[1] = boundsB[2]
    /\ boundsA[2] = boundsB[1]

(* C12: a call that resolves replaces the results and the last-search      *)
(* bounds in one step, the bounds being those the call was issued with,    *)
(* not the bounds current at that time; if the map moved to other bounds   *)
(* meanwhile the button is shown afterwards; and in every state the        *)
(* results and the last-search bounds are those of one completed search.   *)
C12_SnapshotOfOneSearch ==
    /\ [](/\ searchBounds = lastCompleted.bbox
          /\ \E n \in FeatureCounts : searchResults = Features(lastCompleted, n))
    /\ [][\A i \in 1..Len(inflight) :
            (Resolves /\ Left(i)) =>
                /\ searchBounds' = inflight[i].bbox
                /\ \E n \in FeatureCounts : searchResults' = Features(inflight[i], n)
                /\ mapBounds # inflight[i].bbox =>
                       (showSearchAreaButton' /\ searchBounds' # mapBounds')]_vars

C12_Witness ==
    /\ lastEvent = "resolved"
    /\ lastCompleted.bbox # mapBounds
    /\ searchBounds = lastCompleted.bbox
    /\ Len(searchResults) = 1
    /\ showSearchAreaButton

(* C13: a load or moveend event replaces the current bounds and recomputes *)
(* the button; it leaves the category, the results and the last-search     *)
(* bounds unchanged and issues no call.                                    *)
C13_ViewportFrame ==
    [][lastEvent' \in {"load", "moveend"} =>
          /\ mapBounds' \in BoundsSet
          /\ showSearchAreaButton' =
                 (searchCategory # Unset /\ Drifted(mapBounds', searchBounds))
          /\ UNCHANGED <<searchCategory, searchResults, searchBounds, inflight>>]_vars

C13_Witness ==
    /\ lastEvent = "load"
    /\ searchCategory # Unset
    /\ mapBounds # Undefined
    /\ inflight = <<>>
    /\ searchResults = <<>>

(* C14: whenever a category is selected, bounds are captured, no call is   *)
(* pending and the button is hidden, the results shown are those of a      *)
(* search issued with the selected category and the current bounds.        *)
C14_QuiescentResultsMatch ==
    (searchCategory # Unset /\ mapBounds # Undefined /\ inflight = <<>>
        /\ ~showSearchAreaButton) =>
            /\ lastCompleted.category = searchCategory
            /\ lastCompleted.bbox = mapBounds
            /\ \E n \in FeatureCounts : searchResults = Features(lastCompleted, n)

(* C15: if a category is selected while no bounds are captured, then once  *)
(* the bounds are captured a search for that category is issued or the     *)
(* button becomes visible.                                                 *)
C15_SearchableAfterCapture ==
    [][(searchCategory # Unset /\ mapBounds = Undefined /\ mapBounds' # Undefined) =>
          \/ (Issues /\ Issued.category = searchCategory)
          \/ showSearchAreaButton']_vars

(* C16: the category starts unset; once selected it is never unset again;  *)
(* it is always unset or one of the five button values; only a click on a  *)
(* category button changes it.                                             *)
C16_CategoryLifecycle ==
    /\ searchCategory = Unset
    /\ [](searchCategory \in
              {"coffee", "restaurant", "bar", "hotel", "museum"} \cup {Unset})
    /\ [][NewCategory => (lastEvent' = "click" /\ searchCategory' # Unset)]_vars

C16_Witness ==
    /\ lastEvent = "rejected"
    /\ searchCategory = categoryButtons[2]
    /\ lastCompleted.category = categoryButtons[1]

====
